---- MODULE Spec2Model ----
(***************************************************************************)
(* The request/response pipeline of the Yesttp HTTP client                 *)
(* (src/unnamed/part_003): request normalisation, the request interceptor, *)
(* the transport call, the response resolver and the two response          *)
(* interceptors, one state machine step per suspension point of            *)
(* makeRequest / handleResponse.                                           *)
(***************************************************************************)
EXTENDS Naturals, Sequences, FiniteSets, TLC

VARIABLES
  ambient,    \* whether window.fetch / global.fetch exist, and which function
              \* each holds (the n-th one assigned to it)
  ctor,       \* the arguments the constructor is called with
  cfg,        \* the client instance: the fields the constructor assigns
  fetchFn,    \* the function this.fetchInstance holds
  invoked,    \* per call: the function the transport call went to
  net,        \* per call: how the transport (fetch) behaves for that call
  plan,       \* per call: the verb, the path and the options the caller passes
  opts,       \* per call: the request summary makeRequest was given (<= 1)
  pc,         \* per call: where makeRequest / handleResponse stands
  reqCalls,   \* per call: the requests the request interceptor was invoked with
  options,    \* per call: what the request interceptor resolved to (<= 1)
  fetchCalls, \* per call: the argument lists the transport was invoked with
  textReads,  \* per call: how often fetchResponse.text() was called
  response,   \* per call: the response record handleResponse built (<= 1)
  succCalls,  \* per call: the argument lists of responseSuccessInterceptor
  errCalls,   \* per call: the argument lists of responseErrorInterceptor
  pending,    \* per call: the outcome of the invoked response interceptor (<= 1)
  outcome,    \* per call: how the verb call's promise settled (<= 1)
  reads,      \* per call: the reads the caller made of the response record
  console,    \* console.error / console.warn calls, oldest first
  trace       \* the observable events of all calls, oldest first

vars == <<ambient, ctor, cfg, fetchFn, invoked, net, plan, opts, pc, reqCalls, options, fetchCalls,
          textReads, response, succCalls, errCalls, pending, outcome, reads,
          console, trace>>

-----------------------------------------------------------------------------
(* JavaScript values.  A value is a record [t, s]: its type tag and its    *)
(* text.  A plain object is named by its JSON text.                        *)

Undefined == [t |-> "undefined", s |-> ""]
Null      == [t |-> "null", s |-> ""]
Str(x)    == [t |-> "string", s |-> x]
Num(x)    == [t |-> "number", s |-> x]
Bool(x)   == [t |-> "boolean", s |-> x]
Obj(x)    == [t |-> "object", s |-> x]
\* an object that refers to itself: JSON.stringify throws a TypeError on it
Cyclic    == [t |-> "cyclic", s |-> ""]
\* an Error instance, named by its message
Err(x)    == [t |-> "error", s |-> x]

\* ToBoolean, as `a ? b : c` and `a || b` apply it
Truthy(v) ==
  CASE v.t = "undefined" -> FALSE
    [] v.t = "null"      -> FALSE
    [] v.t = "boolean"   -> v.s = "true"
    [] v.t = "number"    -> v.s \notin {"0", "NaN"}
    [] v.t = "string"    -> v.s # ""
    [] OTHER             -> TRUE

\* a || b
OrElse(a, b) == IF Truthy(a) THEN a ELSE b

StringifyError == Err("TypeError: Converting circular structure to JSON")

\* JSON.stringify(v): [ok, v] with the text, or the error thrown
JSONStringify(v) ==
  CASE v.t = "cyclic"    -> [ok |-> FALSE, v |-> StringifyError]
    [] v.t = "undefined" -> [ok |-> TRUE, v |-> Undefined]
    [] v.t = "null"      -> [ok |-> TRUE, v |-> Str("null")]
    [] v.t = "string"    -> [ok |-> TRUE, v |-> Str("\"" \o v.s \o "\"")]
    [] v.t = "error"     -> [ok |-> TRUE, v |-> Str("{}")]
    [] OTHER             -> [ok |-> TRUE, v |-> Str(v.s)]

\* the JSON documents of the model
JsonValues ==
  { Null, Bool("false"), Bool("true"), Num("0"), Num("123"), Str(""),
    Str("Hello!"), Obj("{\"abc\":123}"), Obj("{\"hello\":\"world\"}"),
    Obj("{\"error\":\"email_invalid\"}"), Obj("{\"id\":1}") }

ParseError == Err("SyntaxError: Unexpected token")

\* JSON.parse(text): the value whose JSON text it is, or the error thrown
JSONParse(text) ==
  IF \E v \in JsonValues : JSONStringify(v).v = Str(text)
  THEN [ok |-> TRUE, v |-> CHOOSE v \in JsonValues : JSONStringify(v).v = Str(text)]
  ELSE [ok |-> FALSE, v |-> ParseError]

-----------------------------------------------------------------------------
(* Strings                                                                 *)

StartsWith(s, p) == Len(s) >= Len(p) /\ SubSeq(s, 1, Len(p)) = p
EndsWith(s, p)   == Len(s) >= Len(p) /\ SubSeq(s, Len(s) - Len(p) + 1, Len(s)) = p

\* one character under application/x-www-form-urlencoded
EncodeChar(ch) ==
  CASE ch = " " -> "+"
    [] ch = "&" -> "%26"
    [] ch = "=" -> "%3D"
    [] ch = "/" -> "%2F"
    [] ch = "?" -> "%3F"
    [] OTHER    -> ch

RECURSIVE EncodeStr(_)
EncodeStr(s) ==
  IF Len(s) = 0 THEN ""
  ELSE EncodeChar(SubSeq(s, 1, 1)) \o EncodeStr(SubSeq(s, 2, Len(s)))

Digits == "0123456789"

IsDigit(ch) == \E d \in 1..10 : SubSeq(Digits, d, d) = ch

DigitValue(ch) == (CHOOSE d \in 1..10 : SubSeq(Digits, d, d) = ch) - 1

RECURSIVE ToNumber(_)
ToNumber(s) ==
  IF Len(s) = 0 THEN 0
  ELSE 10 * ToNumber(SubSeq(s, 1, Len(s) - 1)) + DigitValue(SubSeq(s, Len(s), Len(s)))

\* a property key that is an integer index: a canonical numeric string
IsArrayIndex(k) ==
  /\ Len(k) > 0
  /\ \A i \in 1..Len(k) : IsDigit(SubSeq(k, i, i))
  /\ Len(k) = 1 \/ SubSeq(k, 1, 1) # "0"

\* inserts an integer-keyed entry into entries sorted by ascending index
RECURSIVE InsertByIndex(_, _)
InsertByIndex(e, sorted) ==
  IF Len(sorted) = 0 THEN <<e>>
  ELSE IF ToNumber(e.k) < ToNumber(Head(sorted).k)
       THEN <<e>> \o sorted
       ELSE <<Head(sorted)>> \o InsertByIndex(e, Tail(sorted))

RECURSIVE SortByIndex(_)
SortByIndex(entries) ==
  IF Len(entries) = 0 THEN << >>
  ELSE InsertByIndex(Head(entries), SortByIndex(Tail(entries)))

\* { ...searchParams }: the own properties of an object in property order,
\* integer keys first in ascending order, then the other keys as inserted;
\* the argument lists the entries in the order the caller inserted them
OwnPropertyOrder(entries) ==
  SortByIndex(SelectSeq(entries, LAMBDA e : IsArrayIndex(e.k)))
  \o SelectSeq(entries, LAMBDA e : ~IsArrayIndex(e.k))

\* mutant: no entry is deleted
StripUndefined_KeepsAll(params) == params

\* the entries of a mapping whose value is not undefined, order kept
RECURSIVE StripUndefined(_)
StripUndefined(params) ==
  IF Len(params) = 0 THEN << >>
  ELSE IF Head(params).v.t = "undefined"
       THEN StripUndefined(Tail(params))
       ELSE <<Head(params)>> \o StripUndefined(Tail(params))

\* new URLSearchParams(record).toString()
RECURSIVE SearchParamsToString(_)
SearchParamsToString(params) ==
  IF Len(params) = 0 THEN ""
  ELSE EncodeStr(Head(params).k) \o "=" \o EncodeStr(Head(params).v.s)
       \o (IF Len(params) > 1 THEN "&" ELSE "")
       \o SearchParamsToString(Tail(params))

\* mutant: only https:// marks a complete URL
IsCompleteUrl_HttpsOnly(url) == StartsWith(url, "https://")

\* url.match(/^https?:\/\//)
IsCompleteUrl(url) == StartsWith(url, "http://") \/ StartsWith(url, "https://")

\* mutant: the base URL and the path are concatenated, a slash inserted
\* when neither has one
JoinBaseUrl_NeverRemoves(baseUrl, url) ==
  LET insertSlash == ~EndsWith(baseUrl, "/") /\ ~StartsWith(url, "/")
  IN  baseUrl \o (IF insertSlash THEN "/" ELSE "") \o url

\* constructCompleteUrl, the else branch: the base URL joined with the path
JoinBaseUrl(baseUrl, url) ==
  LET insertSlash == ~EndsWith(baseUrl, "/") /\ ~StartsWith(url, "/")
      removeSlash == EndsWith(baseUrl, "/") /\ StartsWith(url, "/")
  IN  IF removeSlash
      THEN SubSeq(baseUrl, 1, Len(baseUrl) - 1) \o url
      ELSE baseUrl \o (IF insertSlash THEN "/" ELSE "") \o url

\* Yesttp.constructCompleteUrl; a mapping is the sequence of its [k, v]
\* entries (an absent searchParams spreads to the empty mapping)
constructCompleteUrl(baseUrlField, url, searchParams) ==
  LET baseUrl == OrElse(baseUrlField, Str("")).s
      joined  == IF IsCompleteUrl(url) THEN url ELSE JoinBaseUrl(baseUrl, url)
      params  == SearchParamsToString(StripUndefined(OwnPropertyOrder(searchParams)))
  IN  IF params # "" THEN joined \o "?" \o params ELSE joined

-----------------------------------------------------------------------------
(* Requests.  A header mapping is a function from header names to values;  *)
(* an absent `headers` option spreads to the empty mapping.                *)

Lookup(m, k) == IF k \in DOMAIN m THEN m[k] ELSE Undefined

\* { ...m, [k]: v }
WithKey(m, k, v) == [x \in DOMAIN m \cup {k} |-> IF x = k THEN v ELSE m[x]]

\* Yesttp.removeUndefinedMappings
removeUndefinedMappings(obj) ==
  [k \in {x \in DOMAIN obj : obj[x].t \notin {"undefined", "null"}} |-> obj[k]]

\* mutant: { url, method, ...options }, the keys of options override
RequestSummary_OptionsLast(verb, path, o) ==
  [ o EXCEPT !.url    = IF o.url.t = "undefined" THEN path ELSE o.url.s,
             !.method = IF o.method.t = "undefined" THEN verb ELSE o.method.s ]

\* the verb methods: { ...options, url, method }, the later keys override
RequestSummary(verb, path, o) == [o EXCEPT !.url = path, !.method = verb]

\* mutant: the client's credentials take priority over the call's
ResolveCredentials_InstanceFirst(o, config) == OrElse(config.credentials, o.credentials)

\* makeRequest: opts.credentials || this.credentials
ResolveCredentials(o, config) == OrElse(o.credentials, config.credentials)

\* makeRequest: opts.headers?.['Content-Type'] || (opts.body ? 'application/json' : undefined)
ResolveContentType(o) ==
  OrElse(Lookup(o.headers, "Content-Type"),
         IF Truthy(o.body) THEN Str("application/json") ELSE Undefined)

\* makeRequest: the headers of the request handed to the request interceptor
ResolveHeaders(o) ==
  removeUndefinedMappings(WithKey(o.headers, "Content-Type", ResolveContentType(o)))

\* makeRequest: the argument of this.requestInterceptor(...)
ResolveRequest(o, config) ==
  [ o EXCEPT
      !.url         = constructCompleteUrl(config.baseUrl, o.url, o.searchParams),
      !.credentials = ResolveCredentials(o, config),
      !.headers     = ResolveHeaders(o) ]

\* makeRequest: options.body ? JSON.stringify(options.body) : options.bodyRaw
TransportBody(req) ==
  IF Truthy(req.body) THEN JSONStringify(req.body)
  ELSE [ok |-> TRUE, v |-> req.bodyRaw]

\* makeRequest: the arguments of this.fetchInstance(...)
TransportArgs(req) ==
  [ url         |-> req.url,
    method      |-> req.method,
    headers     |-> req.headers,
    body        |-> TransportBody(req).v,
    credentials |-> req.credentials ]

\* Jttp.makeRequest (the same in Lighttp): the request handed to the request
\* interceptor.  Jttp names the structured body `bodyJson` and the raw one
\* `body`; the model keeps the fields `body` and `bodyRaw` for them.  Jttp
\* has no credentials.
Jttp_ResolveRequest(o, config) ==
  [ o EXCEPT
      !.url     = constructCompleteUrl(config.baseUrl, o.url, o.searchParams),
      !.headers = WithKey(o.headers, "Content-Type", ResolveContentType(o)) ]

\* Jttp.makeRequest: options.bodyJson ? JSON.stringify(opts.bodyJson) : options.body
\* (req is `options`, what the interceptor returned; o is `opts`, what the
\* verb passed in)
Jttp_TransportBody(req, o) ==
  IF Truthy(req.body) THEN JSONStringify(o.body)
  ELSE [ok |-> TRUE, v |-> req.bodyRaw]

\* Jttp.makeRequest: the arguments of this.fetchInstance(...)
Jttp_TransportArgs(req, o) ==
  [ url         |-> req.url,
    method      |-> req.method,
    headers     |-> removeUndefinedMappings(req.headers),
    body        |-> Jttp_TransportBody(req, o).v,
    credentials |-> Undefined ]

NoHeaders == [x \in {} |-> Undefined]

\* mutant: the transport failure is reported as a server error
SyntheticResponse_ServerError ==
  [ status |-> 500, headers |-> NoHeaders, bodyRaw |-> Undefined,
    json |-> Undefined, invalidJsonResponse |-> FALSE ]

\* makeRequest: the record handed to the error interceptor when the
\* transport call threw.  Its body is a plain property, not the getter.
SyntheticResponse ==
  [ status |-> 0, headers |-> NoHeaders, bodyRaw |-> Undefined,
    json |-> Undefined, invalidJsonResponse |-> FALSE ]

\* handleResponse: the record built from what fetchResponse.text() did
\* (`read` is [ok, v]: the text it resolved to, or its rejection)
BuildResponse(fetchResponse, read) ==
  LET text    == IF read.ok THEN read.v ELSE Undefined
      parsed  == IF read.ok /\ text.t # "undefined"
                 THEN JSONParse(text.s)
                 ELSE [ok |-> TRUE, v |-> Undefined]
      invalid == ~read.ok \/ ~parsed.ok
  IN  [ status  |-> fetchResponse.status,
        headers |-> IF fetchResponse.hasHeaders THEN fetchResponse.headers
                    ELSE NoHeaders,
        bodyRaw |-> text,
        json    |-> IF invalid THEN Undefined ELSE parsed.v,
        invalidJsonResponse |-> invalid ]

\* mutant: 400 counts as a success
IsSuccessStatus_UpTo400(status) == status >= 200 /\ status <= 400

\* handleResponse: response.status >= 200 && response.status < 400
IsSuccessStatus(status) == status >= 200 /\ status < 400

\* mutant: the getter never warns
BodyGetter_NeverWarns(resp) == [v |-> resp.json, warns |-> FALSE]

\* handleResponse: `get body()`, [v: the value read, warns: whether it warns]
BodyGetter(resp) == [v |-> resp.json, warns |-> resp.invalidJsonResponse]

-----------------------------------------------------------------------------
(* Interceptors.  An interceptor yields [ok, v, logs]: it resolves with v  *)
(* (ok) or rejects with v, after the console calls `logs`.                 *)

Resolved(v) == [ok |-> TRUE, v |-> v, logs |-> << >>]
Rejected(v) == [ok |-> FALSE, v |-> v, logs |-> << >>]

ErrorLog(c, args) == [level |-> "error", call |-> c, args |-> args]
WarnLog(c, args)  == [level |-> "warn", call |-> c, args |-> args]

\* Yesttp.defaultRequestInterceptor
defaultRequestInterceptor(req) == Resolved(req)

\* request interceptors a caller may pass to the constructor
RequestInterceptor(kind, req) ==
  CASE kind = "default" -> defaultRequestInterceptor(req)
    [] kind = "undefinedHeader" ->
         Resolved([req EXCEPT !.headers = WithKey(req.headers, "X-Trace", Undefined)])
    [] kind = "replaceBody" ->
         Resolved([req EXCEPT !.body = Obj("{\"id\":1}")])
    [] kind = "rejects" -> Rejected(Err("request interceptor failed"))

\* Yesttp.ResponseError
ResponseError(req, resp) == [request |-> req, response |-> resp]

\* mutant: the default error interceptor throws without logging
defaultResponseErrorInterceptor_Silent(c, req, resp, cause) ==
  [ok |-> FALSE, v |-> ResponseError(req, resp), logs |-> << >>]

\* mutant: the default error interceptor logs the error without the cause
defaultResponseErrorInterceptor_CauseDropped(c, req, resp, cause) ==
  [ ok |-> FALSE, v |-> ResponseError(req, resp),
    logs |-> <<ErrorLog(c, <<Str("[Yesttp] An HTTP error occurred"),
                             ResponseError(req, resp)>>)>> ]

\* Yesttp.defaultResponseErrorInterceptor (cause is Undefined when not passed)
defaultResponseErrorInterceptor(c, req, resp, cause) ==
  LET error     == ResponseError(req, resp)
      errorArgs == <<Str("[Yesttp] An HTTP error occurred"), error>>
                   \o (IF Truthy(cause) THEN <<cause>> ELSE << >>)
  IN  [ok |-> FALSE, v |-> error, logs |-> <<ErrorLog(c, errorArgs)>>]

\* Jttp.defaultResponseErrorInterceptor (the same in Lighttp): it is not
\* passed a cause
Jttp_defaultResponseErrorInterceptor(c, req, resp) ==
  LET error == ResponseError(req, resp)
  IN  [ ok |-> FALSE, v |-> error,
        logs |-> <<ErrorLog(c, <<Str("An HTTP error occurred"), error>>)>> ]

\* Yesttp.defaultResponseSuccessInterceptor
defaultResponseSuccessInterceptor(req, resp) == Resolved(resp)

\* error interceptors a caller may pass to the constructor
ResponseErrorInterceptor(kind, c, req, resp, cause) ==
  CASE kind = "default"  -> defaultResponseErrorInterceptor(c, req, resp, cause)
    [] kind = "Jttp.default" -> Jttp_defaultResponseErrorInterceptor(c, req, resp)
    [] kind = "fallback" -> Resolved(Str("fallback"))
    [] kind = "rejectResponse" -> Rejected(resp)

\* success interceptors a caller may pass to the constructor
ResponseSuccessInterceptor(kind, req, resp) ==
  CASE kind = "default" -> defaultResponseSuccessInterceptor(req, resp)
    [] kind = "rawBody" -> Resolved(resp.bodyRaw)
    [] kind = "throws"  -> Rejected(Err("success interceptor failed"))

-----------------------------------------------------------------------------
(* The state machine                                                       *)

CallIds == {1, 2}

\* the Error makeRequest throws without a fetch function (message shortened)
ConfigError == Err("[Yesttp] Could not find fetch function")

\* mutant: the check for a fetch function is skipped
FetchMissing_Never(config) == FALSE

\* makeRequest: !this.fetchInstance
FetchMissing(config) == ~config.fetchInstance

Event(c, e) == [call |-> c, ev |-> e]

\* mutant: the promise of the call is left pending
Settled_LeftPending(c, r) == UNCHANGED <<outcome, pc, trace>>

\* mutant: what the response interceptor returns is thrown
Settled_AsRejection(c, r) ==
  /\ outcome' = [outcome EXCEPT ![c] = <<[ok |-> FALSE, v |-> r.v]>>]
  /\ pc' = [pc EXCEPT ![c] = "settled"]
  /\ trace' = Append(trace, Event(c, "reject"))

\* the promise of call c settles
Settled(c, r) ==
  /\ outcome' = [outcome EXCEPT ![c] = <<[ok |-> r.ok, v |-> r.v]>>]
  /\ pc' = [pc EXCEPT ![c] = "settled"]
  /\ trace' = Append(trace, Event(c, IF r.ok THEN "resolve" ELSE "reject"))

\* a function object: the n-th function assigned to window.fetch or to
\* global.fetch, bound to its owner; or the fetchInstance a caller supplies
Fn(slot, n) == [slot |-> slot, n |-> n]

\* no function: undefined
NoFn == Fn("none", 0)

CustomFn == Fn("custom", 0)

\* the environment as a client finds it: window.fetch exists or not, there
\* is no global.fetch, and no function has been reassigned
AmbientOf(hasWindowFetch) ==
  [window |-> hasWindowFetch, global |-> FALSE, windowFn |-> 0, globalFn |-> 0]

\* Yesttp.globalWindowFetch: window.fetch, else global.fetch, else undefined
globalWindowFetch(amb) ==
  IF amb.window THEN Fn("window", amb.windowFn)
  ELSE IF amb.global THEN Fn("global", amb.globalFn)
  ELSE NoFn

\* mutant: the transport is looked up when the request is made
TransportTarget_Ambient == globalWindowFetch(ambient)

\* makeRequest: this.fetchInstance(...), the function the constructor stored
TransportTarget == fetchFn

\* mutant: the resolved request is kept in one place shared by all calls
LocalOptions_Shared(c) == options[CHOOSE d \in CallIds : options[d] # << >>][1]

\* makeRequest: `const options`, a local of the invocation
LocalOptions(c) == options[c][1]

\* this.responseErrorInterceptor(req, resp, cause) is invoked and returned
InvokeErrorInterceptor(c, req, resp, cause) ==
  LET r == ResponseErrorInterceptor(cfg.responseErrorInterceptor, c, req, resp, cause)
  IN  /\ errCalls' = [errCalls EXCEPT
                        ![c] = Append(@, [request |-> req, response |-> resp, cause |-> cause])]
      /\ pending' = [pending EXCEPT ![c] = <<r>>]
      /\ console' = console \o r.logs
      /\ trace' = Append(trace, Event(c, "errorInterceptor"))
                  \o [i \in 1..Len(r.logs) |-> Event(c, "console." \o r.logs[i].level)]
      /\ pc' = [pc EXCEPT ![c] = "responding"]
      /\ UNCHANGED succCalls

\* this.responseSuccessInterceptor(req, resp) is invoked and returned
InvokeSuccessInterceptor(c, req, resp) ==
  LET r == ResponseSuccessInterceptor(cfg.responseSuccessInterceptor, req, resp)
  IN  /\ succCalls' = [succCalls EXCEPT ![c] = Append(@, [request |-> req, response |-> resp])]
      /\ pending' = [pending EXCEPT ![c] = <<r>>]
      /\ console' = console \o r.logs
      /\ trace' = Append(trace, Event(c, "successInterceptor"))
      /\ pc' = [pc EXCEPT ![c] = "responding"]
      /\ UNCHANGED errCalls

\* makeRequest up to its first await: the fetch check and the call of the
\* request interceptor
makeRequest(c, o) ==
  /\ opts' = [opts EXCEPT ![c] = <<o>>]
  /\ IF FetchMissing(cfg)
     THEN /\ Settled(c, Rejected(ConfigError))
          /\ UNCHANGED reqCalls
     ELSE /\ reqCalls' = [reqCalls EXCEPT ![c] = Append(@, ResolveRequest(o, cfg))]
          /\ pc' = [pc EXCEPT ![c] = "intercepting"]
          /\ trace' = Append(trace, Event(c, "requestInterceptor"))
          /\ UNCHANGED outcome
  /\ UNCHANGED <<ambient, ctor, fetchFn, invoked, reads, cfg, net, plan, options, fetchCalls, textReads, response,
                 succCalls, errCalls, pending, console>>

\* get(url, options): makeRequest({ ...options, url, method: 'GET' })
get(c) ==
  /\ pc[c] = "idle"
  /\ plan[c].verb = "GET"
  /\ makeRequest(c, RequestSummary("GET", plan[c].path, plan[c].options))

\* post(url, options)
post(c) ==
  /\ pc[c] = "idle"
  /\ plan[c].verb = "POST"
  /\ makeRequest(c, RequestSummary("POST", plan[c].path, plan[c].options))

\* put(url, options)
put(c) ==
  /\ pc[c] = "idle"
  /\ plan[c].verb = "PUT"
  /\ makeRequest(c, RequestSummary("PUT", plan[c].path, plan[c].options))

\* patch(url, options)
patch(c) ==
  /\ pc[c] = "idle"
  /\ plan[c].verb = "PATCH"
  /\ makeRequest(c, RequestSummary("PATCH", plan[c].path, plan[c].options))

\* delete(url, options)
delete(c) ==
  /\ pc[c] = "idle"
  /\ plan[c].verb = "DELETE"
  /\ makeRequest(c, RequestSummary("DELETE", plan[c].path, plan[c].options))

\* mutant: a rejection of the request interceptor is caught and handed to
\* the error interceptor
RequestInterceptorFailed_Caught(c, r) ==
  /\ InvokeErrorInterceptor(c, reqCalls[c][1], SyntheticResponse, r.v)
  /\ UNCHANGED outcome

\* makeRequest: `await this.requestInterceptor(...)` is outside the try
\* block, so its rejection is the rejection of the call
RequestInterceptorFailed(c, r) ==
  /\ Settled(c, r)
  /\ UNCHANGED <<succCalls, errCalls, pending, console>>

\* the request interceptor rejected: makeRequest rejects at its first await
interceptorRejected(c) ==
  /\ pc[c] = "intercepting"
  /\ LET r == RequestInterceptor(cfg.requestInterceptor, reqCalls[c][1])
     IN  /\ ~r.ok
         /\ RequestInterceptorFailed(c, r)
  /\ UNCHANGED <<ambient, ctor, fetchFn, invoked, reads, cfg, net, plan, opts, reqCalls,
                 options, fetchCalls, textReads, response>>

\* the request interceptor resolved: the try block of makeRequest builds the
\* transport arguments and calls the transport, or catches what building threw
interceptorResolved(c) ==
  /\ pc[c] = "intercepting"
  /\ LET r == RequestInterceptor(cfg.requestInterceptor, reqCalls[c][1])
     IN  /\ r.ok
         /\ options' = [options EXCEPT ![c] = <<r.v>>]
         /\ IF TransportBody(r.v).ok
            THEN /\ fetchCalls' = [fetchCalls EXCEPT ![c] = Append(@, TransportArgs(r.v))]
                 /\ invoked' = [invoked EXCEPT ![c] = TransportTarget]
                 /\ pc' = [pc EXCEPT ![c] = "fetching"]
                 /\ trace' = Append(trace, Event(c, "fetch"))
                 /\ UNCHANGED <<succCalls, errCalls, pending, console>>
            ELSE /\ InvokeErrorInterceptor(c, r.v, SyntheticResponse, TransportBody(r.v).v)
                 /\ UNCHANGED <<fetchCalls, invoked>>
  /\ UNCHANGED <<ambient, ctor, fetchFn, reads, cfg, net, plan, opts, reqCalls, textReads, response, outcome>>

\* the transport call rejected: the catch clause of makeRequest
fetchRejected(c) ==
  /\ pc[c] = "fetching"
  /\ net[c].rejects
  /\ InvokeErrorInterceptor(c, LocalOptions(c), SyntheticResponse, net[c].cause)
  /\ UNCHANGED <<ambient, ctor, fetchFn, invoked, reads, cfg, net, plan, opts, reqCalls, options, fetchCalls, textReads,
                 response, outcome>>

\* the transport call resolved: handleResponse starts and awaits text()
fetchResolved(c) ==
  /\ pc[c] = "fetching"
  /\ ~net[c].rejects
  /\ textReads' = [textReads EXCEPT ![c] = @ + 1]
  /\ pc' = [pc EXCEPT ![c] = "reading"]
  /\ trace' = Append(trace, Event(c, "text"))
  /\ UNCHANGED <<ambient, ctor, fetchFn, invoked, reads, cfg, net, plan, opts, reqCalls, options, fetchCalls, response,
                 succCalls, errCalls, pending, outcome, console>>

\* text() settled: handleResponse builds the record and dispatches on status
textSettled(c) ==
  /\ pc[c] = "reading"
  /\ LET resp == BuildResponse(net[c], net[c].text)
     IN  /\ response' = [response EXCEPT ![c] = <<resp>>]
         /\ IF IsSuccessStatus(resp.status)
            THEN InvokeSuccessInterceptor(c, LocalOptions(c), resp)
            ELSE InvokeErrorInterceptor(c, LocalOptions(c), resp, Undefined)
  /\ UNCHANGED <<ambient, ctor, fetchFn, invoked, reads, cfg, net, plan, opts, reqCalls, options, fetchCalls, textReads,
                 outcome>>

\* the promise the response interceptor returned settles, and with it the call
settle(c) ==
  /\ pc[c] = "responding"
  /\ Settled(c, pending[c][1])
  /\ UNCHANGED <<ambient, ctor, fetchFn, invoked, reads, cfg, net, plan, opts, reqCalls, options, fetchCalls, textReads,
                 response, succCalls, errCalls, pending, console>>

Next ==
  \E c \in CallIds :
    \/ get(c) \/ post(c) \/ put(c) \/ patch(c) \/ delete(c)
    \/ interceptorRejected(c) \/ interceptorResolved(c)
    \/ fetchRejected(c) \/ fetchResolved(c)
    \/ textSettled(c)
    \/ settle(c)

\* a bound: the reads of a response record a caller makes
MaxReads == 3

\* the record handed to the response interceptor of call c
ResponseRecord(c) ==
  IF succCalls[c] # << >> THEN succCalls[c][1].response
  ELSE errCalls[c][1].response

BodyWarning ==
  Str("[Yesttp] You're trying to access the response body as JSON, but it could not be parsed as such")

\* the holder of the record of a settled call evaluates `response.body`
readBody(c) ==
  /\ pc[c] = "settled"
  /\ succCalls[c] # << >> \/ errCalls[c] # << >>
  /\ Len(reads[c]) < MaxReads
  /\ LET got == BodyGetter(ResponseRecord(c))
     IN  /\ reads' = [reads EXCEPT ![c] = Append(@, [field |-> "body", v |-> got.v])]
         /\ console' = IF got.warns
                       THEN Append(console, WarnLog(c, <<BodyWarning>>))
                       ELSE console
  /\ UNCHANGED <<ambient, ctor, fetchFn, invoked, cfg, net, plan, opts, pc, reqCalls, options, fetchCalls,
                 textReads, response, succCalls, errCalls, pending, outcome, trace>>

\* the holder of the record of a settled call evaluates `response.bodyRaw`
readBodyRaw(c) ==
  /\ pc[c] = "settled"
  /\ succCalls[c] # << >> \/ errCalls[c] # << >>
  /\ Len(reads[c]) < MaxReads
  /\ reads' = [reads EXCEPT
                 ![c] = Append(@, [field |-> "bodyRaw", v |-> ResponseRecord(c).bodyRaw])]
  /\ UNCHANGED <<ambient, ctor, fetchFn, invoked, cfg, net, plan, opts, pc, reqCalls, options, fetchCalls,
                 textReads, response, succCalls, errCalls, pending, outcome, console,
                 trace>>

\* the pipeline, and the reads of the record it produced
NextRead ==
  \/ Next
  \/ \E c \in CallIds : readBody(c)
  \/ \E c \in CallIds : readBodyRaw(c)

-----------------------------------------------------------------------------
(* The Jttp client, and Lighttp, which is Jttp under another name.  Their  *)
(* steps after the transport call are those of Yesttp.                     *)

\* the client before `new Jttp(...)` has run
NoClient ==
  [ variant |-> "none", baseUrl |-> Undefined, credentials |-> Undefined,
    fetchInstance |-> FALSE, requestInterceptor |-> "default",
    responseErrorInterceptor |-> "default",
    responseSuccessInterceptor |-> "default" ]

\* console entries of the construction carry the call number 0
NoCall == 0

\* the diagnostic of Jttp.windowFetch (message shortened)
FetchNotFound == Str("Could not find fetch function")

\* Jttp.windowFetch: whether a fetch function was found, and what is logged
Jttp_windowFetch(amb) ==
  IF amb.window \/ amb.global
  THEN [found |-> TRUE, logs |-> << >>]
  ELSE [found |-> FALSE, logs |-> <<ErrorLog(NoCall, <<FetchNotFound>>)>>]

\* mutant: the default of fetchInstance is evaluated whether or not the
\* argument is supplied
Jttp_fetchInstanceDefault_Eager(args, amb) ==
  [ found |-> args.fetchInstance \/ Jttp_windowFetch(amb).found,
    logs  |-> Jttp_windowFetch(amb).logs ]

\* the constructor's `fetchInstance = Jttp.windowFetch`: the getter runs only
\* when the argument is not supplied
Jttp_fetchInstanceDefault(args, amb) ==
  IF args.fetchInstance THEN [found |-> TRUE, logs |-> << >>]
  ELSE Jttp_windowFetch(amb)

\* new Jttp(args)
Jttp_constructor ==
  /\ cfg.variant = "none"
  /\ LET f == Jttp_fetchInstanceDefault(ctor, ambient)
     IN  /\ cfg' = [ctor EXCEPT !.fetchInstance = f.found]
         /\ console' = console \o f.logs
  /\ fetchFn' = IF ctor.fetchInstance THEN CustomFn ELSE globalWindowFetch(ambient)
  /\ pc' = [c \in CallIds |-> IF pc[c] = "waiting" THEN "idle" ELSE pc[c]]
  /\ trace' = Append(trace, Event(NoCall, "constructor"))
  /\ UNCHANGED <<ambient, ctor, invoked, reads, net, plan, opts, reqCalls, options, fetchCalls,
                 textReads, response, succCalls, errCalls, pending, outcome>>

\* Jttp.makeRequest up to its first await: no check for a fetch function
Jttp_makeRequest(c, o) ==
  /\ opts' = [opts EXCEPT ![c] = <<o>>]
  /\ reqCalls' = [reqCalls EXCEPT ![c] = Append(@, Jttp_ResolveRequest(o, cfg))]
  /\ pc' = [pc EXCEPT ![c] = "intercepting"]
  /\ trace' = Append(trace, Event(c, "requestInterceptor"))
  /\ UNCHANGED <<ambient, ctor, fetchFn, invoked, reads, cfg, net, plan, options, fetchCalls, textReads,
                 response, succCalls, errCalls, pending, outcome, console>>

Jttp_get(c) ==
  /\ pc[c] = "idle"
  /\ plan[c].verb = "GET"
  /\ Jttp_makeRequest(c, RequestSummary("GET", plan[c].path, plan[c].options))

Jttp_post(c) ==
  /\ pc[c] = "idle"
  /\ plan[c].verb = "POST"
  /\ Jttp_makeRequest(c, RequestSummary("POST", plan[c].path, plan[c].options))

Jttp_put(c) ==
  /\ pc[c] = "idle"
  /\ plan[c].verb = "PUT"
  /\ Jttp_makeRequest(c, RequestSummary("PUT", plan[c].path, plan[c].options))

Jttp_patch(c) ==
  /\ pc[c] = "idle"
  /\ plan[c].verb = "PATCH"
  /\ Jttp_makeRequest(c, RequestSummary("PATCH", plan[c].path, plan[c].options))

Jttp_delete(c) ==
  /\ pc[c] = "idle"
  /\ plan[c].verb = "DELETE"
  /\ Jttp_makeRequest(c, RequestSummary("DELETE", plan[c].path, plan[c].options))

\* the request interceptor resolved: the try block of Jttp.makeRequest.  A
\* throw of JSON.stringify, or of the call of an undefined fetchInstance, is
\* caught; the error interceptor is not passed what was caught
Jttp_interceptorResolved(c) ==
  /\ pc[c] = "intercepting"
  /\ LET r == RequestInterceptor(cfg.requestInterceptor, reqCalls[c][1])
     IN  /\ r.ok
         /\ options' = [options EXCEPT ![c] = <<r.v>>]
         /\ IF Jttp_TransportBody(r.v, opts[c][1]).ok /\ cfg.fetchInstance
            THEN /\ fetchCalls' = [fetchCalls EXCEPT
                                     ![c] = Append(@, Jttp_TransportArgs(r.v, opts[c][1]))]
                 /\ invoked' = [invoked EXCEPT ![c] = TransportTarget]
                 /\ pc' = [pc EXCEPT ![c] = "fetching"]
                 /\ trace' = Append(trace, Event(c, "fetch"))
                 /\ UNCHANGED <<succCalls, errCalls, pending, console>>
            ELSE /\ InvokeErrorInterceptor(c, r.v, SyntheticResponse, Undefined)
                 /\ UNCHANGED <<fetchCalls, invoked>>
  /\ UNCHANGED <<ambient, ctor, fetchFn, reads, cfg, net, plan, opts, reqCalls, textReads, response,
                 outcome>>

\* the transport call rejected: the catch clause of Jttp.makeRequest
Jttp_fetchRejected(c) ==
  /\ pc[c] = "fetching"
  /\ net[c].rejects
  /\ InvokeErrorInterceptor(c, LocalOptions(c), SyntheticResponse, Undefined)
  /\ UNCHANGED <<ambient, ctor, fetchFn, invoked, reads, cfg, net, plan, opts, reqCalls, options, fetchCalls,
                 textReads, response, outcome>>

NextJttp ==
  \/ Jttp_constructor
  \/ \E c \in CallIds :
       \/ Jttp_get(c) \/ Jttp_post(c) \/ Jttp_put(c) \/ Jttp_patch(c) \/ Jttp_delete(c)
       \/ interceptorRejected(c) \/ Jttp_interceptorResolved(c)
       \/ Jttp_fetchRejected(c) \/ fetchResolved(c)
       \/ textSettled(c)
       \/ settle(c)

-----------------------------------------------------------------------------
(* The construction of a Yesttp client, and an environment whose           *)
(* window.fetch and global.fetch are assigned and deleted over time.       *)

\* a bound: the assignments the environment makes to window.fetch and
\* global.fetch
MaxAmbientChanges == 2

\* the assignments the environment has made so far
AmbientChanges ==
  Len(SelectSeq(trace, LAMBDA e : e.call = NoCall /\ e.ev # "constructor"))

\* new Yesttp(args): the fields are assigned, fetchInstance from the getter
Yesttp_constructor ==
  /\ cfg.variant = "none"
  /\ cfg' = [ctor EXCEPT !.fetchInstance = globalWindowFetch(ambient) # NoFn]
  /\ fetchFn' = globalWindowFetch(ambient)
  /\ pc' = [c \in CallIds |-> IF pc[c] = "waiting" THEN "idle" ELSE pc[c]]
  /\ trace' = Append(trace, Event(NoCall, "constructor"))
  /\ UNCHANGED <<ambient, ctor, invoked, reads, net, plan, opts, reqCalls, options,
                 fetchCalls, textReads, response, succCalls, errCalls, pending,
                 outcome, console>>

\* the environment: window.fetch = f, or global.fetch = f, for a new f
assignAmbientFetch(slot) ==
  /\ AmbientChanges < MaxAmbientChanges
  /\ ambient' = IF slot = "window"
                THEN [ambient EXCEPT !.window = TRUE, !.windowFn = @ + 1]
                ELSE [ambient EXCEPT !.global = TRUE, !.globalFn = @ + 1]
  /\ trace' = Append(trace, Event(NoCall, slot \o ".fetch = f"))
  /\ UNCHANGED <<ctor, cfg, fetchFn, invoked, reads, net, plan, opts, pc, reqCalls,
                 options, fetchCalls, textReads, response, succCalls, errCalls,
                 pending, outcome, console>>

\* the environment: window.fetch = undefined, or global.fetch = undefined
removeAmbientFetch(slot) ==
  /\ AmbientChanges < MaxAmbientChanges
  /\ IF slot = "window" THEN ambient.window ELSE ambient.global
  /\ ambient' = IF slot = "window"
                THEN [ambient EXCEPT !.window = FALSE]
                ELSE [ambient EXCEPT !.global = FALSE]
  /\ trace' = Append(trace, Event(NoCall, slot \o ".fetch = undefined"))
  /\ UNCHANGED <<ctor, cfg, fetchFn, invoked, reads, net, plan, opts, pc, reqCalls,
                 options, fetchCalls, textReads, response, succCalls, errCalls,
                 pending, outcome, console>>

\* construction, the pipeline, and the environment changing under both
NextAmbient ==
  \/ Yesttp_constructor
  \/ \E slot \in {"window", "global"} : assignAmbientFetch(slot)
  \/ \E slot \in {"window", "global"} : removeAmbientFetch(slot)
  \/ Next

-----------------------------------------------------------------------------
(* Scenarios: the client constructed, the call issued and the behaviour of *)
(* the transport.  Call 1 is the call under study; call 2 is not issued.   *)

\* options = {}; the keys url and method are not options of the API, but an
\* untyped caller can pass them
NoOptions ==
  [ url |-> Undefined, method |-> Undefined,
    searchParams |-> << >>, headers |-> NoHeaders, body |-> Undefined,
    bodyRaw |-> Undefined, credentials |-> Undefined ]

NoPlan == [verb |-> "NONE", path |-> "", options |-> NoOptions]

Verbs == {"GET", "POST", "PUT", "PATCH", "DELETE"}

\* the transport rejects (mockRejectedValue)
NetReject ==
  [ rejects |-> TRUE, cause |-> Err("Server unavailable"), status |-> 0,
    hasHeaders |-> FALSE, headers |-> NoHeaders,
    text |-> [ok |-> TRUE, v |-> Undefined] ]

\* the transport rejects without a reason (Promise.reject())
NetRejectNoReason == [NetReject EXCEPT !.cause = Undefined]

\* the transport resolves with a response (mockResolvedValue)
NetResponse(status, hasHeaders, text) ==
  [ rejects |-> FALSE, cause |-> Undefined, status |-> status,
    hasHeaders |-> hasHeaders,
    headers |-> IF hasHeaders
                THEN [k \in {"content-type"} |-> Str("application/json")]
                ELSE NoHeaders,
    text |-> text ]

StatusValues == {199, 200, 204, 399, 400, 500}

\* what text() does: resolves with a string or undefined, or rejects
TextResults ==
  { [ok |-> TRUE, v |-> Undefined],
    [ok |-> TRUE, v |-> Str("")],
    [ok |-> TRUE, v |-> Str("Tada")],
    [ok |-> TRUE, v |-> Str("{\"error\":\"email_invalid\"}")],
    [ok |-> FALSE, v |-> Err("body stream failed")] }

HeaderMaps ==
  { [k \in D |-> IF k = "Content-Type" THEN ct ELSE Str("Quack")] :
      D \in SUBSET {"Content-Type", "Authorization"},
      ct \in {Undefined, Str(""), Str("text/plain")} }

BodyValues ==
  { Undefined, Null, Num("0"), Str(""), Obj("{\"abc\":123}"), Str("Hello!"), Cyclic }

Plan(verb, path, o) == [verb |-> verb, path |-> path, options |-> o]

\* the constructor arguments a client was built from
CtorArgsOf(config) ==
  [ variant |-> config.variant, baseUrl |-> config.baseUrl,
    credentials |-> config.credentials, fetchInstance |-> FALSE,
    requestInterceptor |-> config.requestInterceptor,
    responseErrorInterceptor |-> config.responseErrorInterceptor,
    responseSuccessInterceptor |-> config.responseSuccessInterceptor ]

\* the state after `new Yesttp(args)`: the client found window.fetch or not
InitWith(configs, plans, nets) ==
  /\ cfg \in configs
  /\ ambient = AmbientOf(cfg.fetchInstance)
  /\ fetchFn = globalWindowFetch(ambient)
  /\ invoked = [c \in CallIds |-> NoFn]
  /\ ctor = CtorArgsOf(cfg)
  /\ reads = [c \in CallIds |-> << >>]
  /\ \E p \in plans : plan = [c \in CallIds |-> IF c = 1 THEN p ELSE NoPlan]
  /\ \E n \in nets : net = [c \in CallIds |-> IF c = 1 THEN n ELSE NetReject]
  /\ pc = [c \in CallIds |-> IF c = 1 THEN "idle" ELSE "unused"]
  /\ opts = [c \in CallIds |-> << >>]
  /\ reqCalls = [c \in CallIds |-> << >>]
  /\ options = [c \in CallIds |-> << >>]
  /\ fetchCalls = [c \in CallIds |-> << >>]
  /\ textReads = [c \in CallIds |-> 0]
  /\ response = [c \in CallIds |-> << >>]
  /\ succCalls = [c \in CallIds |-> << >>]
  /\ errCalls = [c \in CallIds |-> << >>]
  /\ pending = [c \in CallIds |-> << >>]
  /\ outcome = [c \in CallIds |-> << >>]
  /\ console = << >>
  /\ trace = << >>

\* the pipeline's control flow: every interceptor, every transport behaviour
ControlConfigs ==
  [ variant : {"Yesttp"}, baseUrl : {Undefined}, credentials : {Undefined}, fetchInstance : BOOLEAN,
    requestInterceptor : {"default", "replaceBody", "rejects"},
    responseErrorInterceptor : {"default", "fallback", "rejectResponse"},
    responseSuccessInterceptor : {"default", "rawBody", "throws"} ]

ControlPlans ==
  { Plan(v, "/users", NoOptions) : v \in Verbs }
  \cup { Plan("POST", "/users", [NoOptions EXCEPT !.body = b]) :
           b \in {Obj("{\"abc\":123}"), Cyclic} }

ControlNets ==
  {NetReject, NetRejectNoReason}
  \cup { NetResponse(st, h, t) : st \in StatusValues, h \in BOOLEAN, t \in TextResults }

Init == InitWith(ControlConfigs, ControlPlans, ControlNets)

Spec == Init /\ [][Next]_vars

\* request normalisation: every option of a call, every request interceptor
RequestConfigs ==
  [ variant : {"Yesttp"},
    baseUrl : {Undefined, Str("https://api.backend.com")},
    credentials : {Undefined, Str("same-origin"), Str("include")},
    fetchInstance : {TRUE},
    requestInterceptor : {"default", "undefinedHeader", "replaceBody", "rejects"},
    responseErrorInterceptor : {"default"},
    responseSuccessInterceptor : {"default"} ]

RequestPlans ==
  { Plan(v, "/users", NoOptions) : v \in Verbs }
  \cup { Plan("POST", "/json",
              [ NoOptions EXCEPT !.headers = h, !.body = b,
                                 !.bodyRaw = r, !.credentials = cr ]) :
           h \in HeaderMaps, b \in BodyValues, r \in {Undefined, Str("Hello!")},
           cr \in {Undefined, Str("omit"), Str("include")} }

RequestNets ==
  { NetReject,
    NetResponse(200, TRUE, [ok |-> TRUE, v |-> Str("{\"hello\":\"world\"}")]) }

InitRequest == InitWith(RequestConfigs, RequestPlans, RequestNets)

SpecRequest == InitRequest /\ [][Next]_vars

\* URL construction: every shape of base URL, path and search parameters
UrlBases ==
  { Undefined, Str(""), Str("https://api.io"), Str("https://api.io/"),
    Str("https://api.io//") }

UrlPaths ==
  { "", "users", "/users", "//users", "https://www.google.com/hello",
    "http://x.io/a" }

Param(k, v) == [k |-> k, v |-> v]

\* search parameters, listed in the order the caller inserted them
UrlSearchParams ==
  { << >>,
    <<Param("abc", Str("123"))>>,
    <<Param("abc", Str("123")), Param("def", Str("456"))>>,
    <<Param("abc", Undefined)>>,
    <<Param("abc", Str("1")), Param("x", Undefined), Param("q", Str("a b"))>>,
    <<Param("q", Str("x")), Param("u", Undefined), Param("2", Str("y"))>>,
    <<Param("10", Str("a")), Param("2", Str("b"))>>,
    <<Param("abc", Str(""))>> }

UrlConfigs ==
  [ variant : {"Yesttp"}, baseUrl : UrlBases, credentials : {Undefined},
    fetchInstance : {TRUE},
    requestInterceptor : {"default", "rejects"},
    responseErrorInterceptor : {"default"},
    responseSuccessInterceptor : {"default"} ]

UrlPlans ==
  { Plan(v, p, [NoOptions EXCEPT !.searchParams = sp, !.url = k[1], !.method = k[2]]) :
      v \in Verbs, p \in UrlPaths, sp \in UrlSearchParams,
      k \in { <<Undefined, Undefined>>, <<Str("https://other.io/x"), Str("TRACE")>> } }

UrlNets == RequestNets

InitUrl == InitWith(UrlConfigs, UrlPlans, UrlNets)

SpecUrl == InitUrl /\ [][Next]_vars

\* reading the response record: every outcome of the body read and parse
ReadConfigs ==
  [ variant : {"Yesttp"}, baseUrl : {Undefined}, credentials : {Undefined},
    fetchInstance : {TRUE},
    requestInterceptor : {"default", "rejects"},
    responseErrorInterceptor : {"default"},
    responseSuccessInterceptor : {"default"} ]

ReadPlans == { Plan(v, "/users", NoOptions) : v \in Verbs }

ReadNets ==
  {NetReject} \cup { NetResponse(st, TRUE, t) : st \in {200, 400}, t \in TextResults }

InitRead == InitWith(ReadConfigs, ReadPlans, ReadNets)

SpecRead == InitRead /\ [][NextRead]_vars

\* two calls in flight on one client: each has its own plan and its own
\* transport behaviour, and their steps interleave freely
ConcurrentConfigs == ReadConfigs

ConcurrentPlans ==
  { <<Plan("POST", "/json", [NoOptions EXCEPT !.body = Obj("{\"abc\":123}")]),
      Plan(v, "/orders", NoOptions)>> : v \in Verbs }

ConcurrentNets ==
  LET nets == { NetReject,
                NetResponse(200, TRUE, [ok |-> TRUE, v |-> Str("{\"hello\":\"world\"}")]),
                NetResponse(400, FALSE, [ok |-> TRUE, v |-> Str("Tada")]) }
  IN  nets \X nets

InitConcurrent ==
  /\ cfg \in ConcurrentConfigs
  /\ ambient = AmbientOf(cfg.fetchInstance)
  /\ fetchFn = globalWindowFetch(ambient)
  /\ invoked = [c \in CallIds |-> NoFn]
  /\ ctor = CtorArgsOf(cfg)
  /\ reads = [c \in CallIds |-> << >>]
  /\ \E p \in ConcurrentPlans : plan = [c \in CallIds |-> p[c]]
  /\ \E n \in ConcurrentNets : net = [c \in CallIds |-> n[c]]
  /\ pc = [c \in CallIds |-> "idle"]
  /\ opts = [c \in CallIds |-> << >>]
  /\ reqCalls = [c \in CallIds |-> << >>]
  /\ options = [c \in CallIds |-> << >>]
  /\ fetchCalls = [c \in CallIds |-> << >>]
  /\ textReads = [c \in CallIds |-> 0]
  /\ response = [c \in CallIds |-> << >>]
  /\ succCalls = [c \in CallIds |-> << >>]
  /\ errCalls = [c \in CallIds |-> << >>]
  /\ pending = [c \in CallIds |-> << >>]
  /\ outcome = [c \in CallIds |-> << >>]
  /\ console = << >>
  /\ trace = << >>

SpecConcurrent == InitConcurrent /\ [][Next]_vars

\* Jttp and Lighttp: the environment, the constructor arguments (whether a
\* custom fetchInstance is supplied) and the call made once the client exists
JttpCtorArgs ==
  [ variant : {"Jttp", "Lighttp"}, baseUrl : {Undefined}, credentials : {Undefined},
    fetchInstance : BOOLEAN,
    requestInterceptor : {"default", "replaceBody", "rejects"},
    responseErrorInterceptor : {"Jttp.default"},
    responseSuccessInterceptor : {"default"} ]

JttpPlans ==
  { Plan(v, "/users", NoOptions) : v \in Verbs }
  \cup { Plan("POST", "/json", [NoOptions EXCEPT !.body = b, !.bodyRaw = r]) :
           b \in {Obj("{\"abc\":123}"), Cyclic}, r \in {Undefined, Str("Hello!")} }

JttpNets ==
  { NetReject,
    NetResponse(200, TRUE, [ok |-> TRUE, v |-> Str("{\"hello\":\"world\"}")]),
    NetResponse(400, FALSE, [ok |-> TRUE, v |-> Str("Tada")]) }

\* the state before `new Jttp(args)`
InitJttp ==
  /\ cfg = NoClient
  /\ ambient \in [window : BOOLEAN, global : BOOLEAN, windowFn : {0}, globalFn : {0}]
  /\ fetchFn = NoFn
  /\ invoked = [c \in CallIds |-> NoFn]
  /\ ctor \in JttpCtorArgs
  /\ reads = [c \in CallIds |-> << >>]
  /\ \E p \in JttpPlans : plan = [c \in CallIds |-> IF c = 1 THEN p ELSE NoPlan]
  /\ \E n \in JttpNets : net = [c \in CallIds |-> IF c = 1 THEN n ELSE NetReject]
  /\ pc = [c \in CallIds |-> IF c = 1 THEN "waiting" ELSE "unused"]
  /\ opts = [c \in CallIds |-> << >>]
  /\ reqCalls = [c \in CallIds |-> << >>]
  /\ options = [c \in CallIds |-> << >>]
  /\ fetchCalls = [c \in CallIds |-> << >>]
  /\ textReads = [c \in CallIds |-> 0]
  /\ response = [c \in CallIds |-> << >>]
  /\ succCalls = [c \in CallIds |-> << >>]
  /\ errCalls = [c \in CallIds |-> << >>]
  /\ pending = [c \in CallIds |-> << >>]
  /\ outcome = [c \in CallIds |-> << >>]
  /\ console = << >>
  /\ trace = << >>

SpecJttp == InitJttp /\ [][NextJttp]_vars

\* a Yesttp client built in every environment, which then changes
AmbientCtorArgs ==
  [ variant : {"Yesttp"}, baseUrl : {Undefined},
    credentials : {Str("include")},
    fetchInstance : {FALSE},
    requestInterceptor : {"default", "rejects"},
    responseErrorInterceptor : {"default"},
    responseSuccessInterceptor : {"default"} ]

AmbientPlans == ReadPlans

AmbientNets == RequestNets

\* the state before `new Yesttp(args)`
InitAmbient ==
  /\ cfg = NoClient
  /\ ambient \in [window : BOOLEAN, global : BOOLEAN, windowFn : {0}, globalFn : {0}]
  /\ ctor \in AmbientCtorArgs
  /\ fetchFn = NoFn
  /\ invoked = [c \in CallIds |-> NoFn]
  /\ reads = [c \in CallIds |-> << >>]
  /\ \E p \in AmbientPlans : plan = [c \in CallIds |-> IF c = 1 THEN p ELSE NoPlan]
  /\ \E n \in AmbientNets : net = [c \in CallIds |-> IF c = 1 THEN n ELSE NetReject]
  /\ pc = [c \in CallIds |-> IF c = 1 THEN "waiting" ELSE "unused"]
  /\ opts = [c \in CallIds |-> << >>]
  /\ reqCalls = [c \in CallIds |-> << >>]
  /\ options = [c \in CallIds |-> << >>]
  /\ fetchCalls = [c \in CallIds |-> << >>]
  /\ textReads = [c \in CallIds |-> 0]
  /\ response = [c \in CallIds |-> << >>]
  /\ succCalls = [c \in CallIds |-> << >>]
  /\ errCalls = [c \in CallIds |-> << >>]
  /\ pending = [c \in CallIds |-> << >>]
  /\ outcome = [c \in CallIds |-> << >>]
  /\ console = << >>
  /\ trace = << >>

SpecAmbient == InitAmbient /\ [][NextAmbient]_vars

\* termination: every interceptor and every transport and body-read outcome
LiveConfigs == ControlConfigs

LivePlans == ControlPlans

LiveNets ==
  {NetReject}
  \cup { NetResponse(st, TRUE, t) :
           st \in {200, 500},
           t \in { [ok |-> TRUE, v |-> Str("{\"error\":\"email_invalid\"}")],
                   [ok |-> FALSE, v |-> Err("body stream failed")] } }

InitLive == InitWith(LiveConfigs, LivePlans, LiveNets)

\* the continuation of call c after an await: the promise of the request
\* interceptor, of the transport, of text() or of the response interceptor
\* has settled
Progress(c) ==
  \/ interceptorRejected(c) \/ interceptorResolved(c)
  \/ fetchRejected(c) \/ fetchResolved(c)
  \/ textSettled(c)
  \/ settle(c)

\* every promise the pipeline awaits settles, and the continuation then runs
SpecLive == InitLive /\ [][Next]_vars /\ \A c \in CallIds : WF_vars(Progress(c))

-----------------------------------------------------------------------------
(* Properties                                                              *)

\* the calls issued in a scenario
Issued == {c \in CallIds : pc[c] \notin {"unused", "idle"}}

\* call c is past the invocation of a response interceptor
Dispatched(c) == pc[c] \in {"responding", "settled"}

\* the transport was invoked for call c and returned a response / threw
TransportReturned(c) == fetchCalls[c] # << >> /\ ~net[c].rejects
TransportFailed(c)   == fetchCalls[c] # << >> /\ net[c].rejects

\* the console calls made on behalf of call c
ConsoleOf(c) == SelectSeq(console, LAMBDA e : e.call = c)

\* the position of the first event e of call c in the trace (0: none)
FirstIndex(c, e) ==
  IF \E i \in 1..Len(trace) : trace[i] = Event(c, e)
  THEN CHOOSE i \in 1..Len(trace) :
         /\ trace[i] = Event(c, e)
         /\ \A j \in 1..(i - 1) : trace[j] # Event(c, e)
  ELSE 0

\* C1: once the transport has returned a response and its body read has
\* settled, exactly one response interceptor has been invoked, exactly once:
\* the success interceptor iff 200 <= status < 400, whatever the body read
\* or the JSON parse did; before that, none has been invoked.
C1_OneInterceptorByStatus ==
  \A c \in Issued :
    TransportReturned(c) =>
      IF Dispatched(c)
      THEN /\ Len(succCalls[c]) + Len(errCalls[c]) = 1
           /\ Len(succCalls[c]) = 1 <=> (200 <= net[c].status /\ net[c].status < 400)
           /\ Len(errCalls[c]) = 1 <=> ~(200 <= net[c].status /\ net[c].status < 400)
      ELSE Len(succCalls[c]) + Len(errCalls[c]) = 0

\* C1 witness: a response whose body could not be read went, by its status,
\* to the success interceptor
C1_Witness ==
  /\ pc[1] = "settled"
  /\ Len(succCalls[1]) = 1
  /\ errCalls[1] = << >>
  /\ ~net[1].text.ok
  /\ net[1].status = 399

\* C2: when the transport call rejects, the error interceptor has been
\* invoked exactly once, with the request the request interceptor returned,
\* the record {status 0, no raw body, no decoded body, no headers} and the
\* cause; the success interceptor is not invoked and no body is read.
C2_TransportFailureToErrorInterceptor ==
  \A c \in Issued :
    (TransportFailed(c) /\ pc[c] # "fetching") =>
      /\ Len(errCalls[c]) = 1
      /\ errCalls[c][1].request = RequestInterceptor(cfg.requestInterceptor, reqCalls[c][1]).v
      /\ errCalls[c][1].response.status = 0
      /\ errCalls[c][1].response.bodyRaw = Undefined
      /\ BodyGetter(errCalls[c][1].response) = [v |-> Undefined, warns |-> FALSE]
      /\ DOMAIN errCalls[c][1].response.headers = {}
      /\ errCalls[c][1].cause = net[c].cause
      /\ succCalls[c] = << >>
      /\ textReads[c] = 0
      /\ response[c] = << >>

\* C2 witness: the transport failed for a request the interceptor had
\* rewritten, and the error interceptor got the rewritten request
C2_Witness ==
  /\ TransportFailed(1)
  /\ pc[1] = "settled"
  /\ Len(errCalls[1]) = 1
  /\ cfg.requestInterceptor = "replaceBody"
  /\ errCalls[1][1].request.body = Obj("{\"id\":1}")
  /\ reqCalls[1][1].body = Undefined
  /\ errCalls[1][1].cause = Err("Server unavailable")

\* C3: without a transport function every verb call rejects with the
\* configuration error, and neither the request interceptor, nor a response
\* interceptor, nor the transport is invoked.
C3_NoTransportIsConfigurationError ==
  \A c \in Issued :
    ~cfg.fetchInstance =>
      /\ pc[c] = "settled"
      /\ outcome[c] = <<[ok |-> FALSE, v |-> ConfigError]>>
      /\ reqCalls[c] = << >>
      /\ succCalls[c] = << >>
      /\ errCalls[c] = << >>
      /\ fetchCalls[c] = << >>
      /\ console = << >>

\* C3 witness: a verb call made on a client that found no fetch function
C3_Witness == ~cfg.fetchInstance /\ pc[1] = "settled" /\ plan[1].verb = "PATCH"

\* C4: a settled call that reached a response interceptor settled exactly as
\* that interceptor did: resolved with what it returned, rejected with what
\* it threw; with an error interceptor that returns a value, a call with an
\* error status or a failed transport resolves with that value.
C4_OutcomeIsInterceptorOutcome ==
  \A c \in Issued :
    (pc[c] = "settled" /\ (succCalls[c] # << >> \/ errCalls[c] # << >>)) =>
      /\ Len(outcome[c]) = 1
      /\ \A i \in 1..Len(succCalls[c]) :
           LET a == succCalls[c][i]
               r == ResponseSuccessInterceptor(cfg.responseSuccessInterceptor,
                                               a.request, a.response)
           IN  outcome[c][1] = [ok |-> r.ok, v |-> r.v]
      /\ \A i \in 1..Len(errCalls[c]) :
           LET a == errCalls[c][i]
               r == ResponseErrorInterceptor(cfg.responseErrorInterceptor, c,
                                             a.request, a.response, a.cause)
           IN  /\ outcome[c][1] = [ok |-> r.ok, v |-> r.v]
               /\ cfg.responseErrorInterceptor = "fallback" =>
                    outcome[c][1] = [ok |-> TRUE, v |-> Str("fallback")]

\* C4 witness: a response with an error status resolved by a custom error
\* interceptor
C4_Witness ==
  /\ pc[1] = "settled"
  /\ cfg.responseErrorInterceptor = "fallback"
  /\ TransportReturned(1)
  /\ net[1].status = 500
  /\ outcome[1] = <<[ok |-> TRUE, v |-> Str("fallback")]>>

\* what JSON.parse makes of the text the transport's response delivers
DecodedBodyOf(n) ==
  IF n.text.ok /\ n.text.v.t = "string" /\ JSONParse(n.text.v.s).ok
  THEN JSONParse(n.text.v.s).v
  ELSE Undefined

\* C5: with the default error interceptor a response whose status is outside
\* [200, 400) makes the call reject, never resolve, with the ResponseError of
\* the resolved request and the record carrying the received status, raw
\* body and decoded body; exactly one diagnostic is logged for the call, and
\* it is logged before the call rejects.
C5_DefaultErrorInterceptorRejects ==
  \A c \in Issued :
    ( /\ cfg.responseErrorInterceptor = "default"
      /\ TransportReturned(c)
      /\ Dispatched(c)
      /\ ~(200 <= net[c].status /\ net[c].status < 400) ) =>
      /\ ~pending[c][1].ok
      /\ pending[c][1].v.request = options[c][1]
      /\ pending[c][1].v.response.status = net[c].status
      /\ pending[c][1].v.response.bodyRaw =
           (IF net[c].text.ok THEN net[c].text.v ELSE Undefined)
      /\ BodyGetter(pending[c][1].v.response).v = DecodedBodyOf(net[c])
      /\ Len(ConsoleOf(c)) = 1
      /\ ConsoleOf(c)[1].level = "error"
      /\ FirstIndex(c, "console.error") > 0
      /\ IF pc[c] = "settled"
         THEN /\ outcome[c] = <<[ok |-> FALSE, v |-> pending[c][1].v]>>
              /\ FirstIndex(c, "console.error") < FirstIndex(c, "reject")
              /\ FirstIndex(c, "resolve") = 0
         ELSE /\ outcome[c] = << >>
              /\ FirstIndex(c, "reject") = 0

\* C5 witness: status 400 with a JSON body, rejected by the default interceptor
C5_Witness ==
  /\ cfg.responseErrorInterceptor = "default"
  /\ pc[1] = "settled"
  /\ TransportReturned(1)
  /\ net[1].status = 400
  /\ ~outcome[1][1].ok
  /\ BodyGetter(outcome[1][1].v.response).v = Obj("{\"error\":\"email_invalid\"}")

Supplied(v) == v.t \notin {"undefined", "null"}

\* C7: the headers handed to the transport hold no key whose value is
\* undefined, whatever the request and the request interceptor.
C7_NoUndefinedHeaderToTransport ==
  \A c \in Issued :
    \A i \in 1..Len(fetchCalls[c]) :
      \A k \in DOMAIN fetchCalls[c][i].headers :
        fetchCalls[c][i].headers[k].t # "undefined"

\* C8: the body handed to the transport is the JSON text of the structured
\* body whenever one is supplied (falsy values such as 0 and "" included),
\* a raw body or not; the raw body, as it is, only when none is supplied.
C8_StructuredBodyIsEncoded ==
  \A c \in Issued :
    \A i \in 1..Len(fetchCalls[c]) :
      LET o == options[c][1]
      IN  IF Supplied(o.body)
          THEN fetchCalls[c][i].body = JSONStringify(o.body).v
          ELSE fetchCalls[c][i].body = o.bodyRaw

\* C9: the request handed to the request interceptor has the caller's
\* Content-Type when one was given, else application/json when a structured
\* body is supplied, else no Content-Type key.
C9_ContentTypeOfRequest ==
  \A c \in Issued :
    \A i \in 1..Len(reqCalls[c]) :
      LET given == Lookup(plan[c].options.headers, "Content-Type")
          h     == reqCalls[c][i].headers
      IN  IF Supplied(given)
          THEN "Content-Type" \in DOMAIN h /\ h["Content-Type"] = given
          ELSE IF Supplied(plan[c].options.body)
               THEN "Content-Type" \in DOMAIN h
                    /\ h["Content-Type"] = Str("application/json")
               ELSE "Content-Type" \notin DOMAIN h

\* the credentials a call should end up with: its own, else the client's
ExpectedCredentials(c) ==
  IF plan[c].options.credentials # Undefined
  THEN plan[c].options.credentials
  ELSE cfg.credentials

\* C10: the credentials of the resolved request are the call's own when it
\* supplies them, else the client's when it was constructed with them, else
\* absent; with the default request interceptor the transport gets that value.
C10_CredentialsPriority ==
  \A c \in Issued :
    /\ \A i \in 1..Len(reqCalls[c]) :
         reqCalls[c][i].credentials = ExpectedCredentials(c)
    /\ cfg.requestInterceptor = "default" =>
         \A i \in 1..Len(fetchCalls[c]) :
           fetchCalls[c][i].credentials = ExpectedCredentials(c)

\* C10 witness: a call with its own credentials on a client constructed with
\* other ones reached the transport
C10_Witness ==
  /\ cfg.requestInterceptor = "default"
  /\ cfg.credentials = Str("same-origin")
  /\ plan[1].options.credentials = Str("omit")
  /\ Len(fetchCalls[1]) = 1
  /\ fetchCalls[1][1].credentials = Str("omit")

-----------------------------------------------------------------------------
(* URL construction                                                        *)

\* the base URL of the client, an absent one being the empty string
BaseOf == IF cfg.baseUrl.t = "string" THEN cfg.baseUrl.s ELSE ""

\* the path begins with http:// or https://
IsAbsolutePath(p) ==
  \/ Len(p) >= 7 /\ SubSeq(p, 1, 7) = "http://"
  \/ Len(p) >= 8 /\ SubSeq(p, 1, 8) = "https://"

TrimTrailingSlash(x) == IF Len(x) > 0 /\ SubSeq(x, Len(x), Len(x)) = "/"
                        THEN SubSeq(x, 1, Len(x) - 1) ELSE x

TrimLeadingSlash(x) == IF Len(x) > 0 /\ SubSeq(x, 1, 1) = "/"
                       THEN SubSeq(x, 2, Len(x)) ELSE x

\* the search parameters of call c whose value is not absent, as inserted
KeptParams(c) ==
  SelectSeq(plan[c].options.searchParams, LAMBDA e : e.v.t # "undefined")

\* the entries e in property order: integer keys ascending, then the other
\* keys in the order of e
InPropertyOrder(e) ==
  CHOOSE r \in [1..Len(e) -> 1..Len(e)] :
    /\ \A i, j \in 1..Len(e) : i # j => r[i] # r[j]
    /\ \A i, j \in 1..Len(e) : i < j =>
         LET a == e[r[i]].k
             b == e[r[j]].k
         IN  /\ IsArrayIndex(a) /\ IsArrayIndex(b) => ToNumber(a) < ToNumber(b)
             /\ ~IsArrayIndex(a) => ~IsArrayIndex(b) /\ r[i] < r[j]

Reordered(e, r) == [i \in 1..Len(e) |-> e[r[i]]]

\* "?" and the encoded entries, or nothing when there is no entry
QuerySuffix(entries) ==
  IF Len(entries) = 0 THEN "" ELSE "?" \o SearchParamsToString(entries)

\* the query string the call's search parameters encode to
QueryOf(c) == QuerySuffix(Reordered(KeptParams(c), InPropertyOrder(KeptParams(c))))

\* the URL the transport was invoked with
UrlSent(c) == fetchCalls[c][1].url

\* C11 as stated: for every base URL B and every non-absolute path P the
\* URL is B and P joined with exactly one slash at the join point, never a
\* double slash and never a missing one
C11_ExactlyOneSlashAtJoin ==
  \A c \in CallIds :
    (fetchCalls[c] # << >> /\ ~IsAbsolutePath(plan[c].path)) =>
      LET b == TrimTrailingSlash(BaseOf)
          p == TrimLeadingSlash(plan[c].path)
      IN  /\ UrlSent(c) = b \o "/" \o p \o QueryOf(c)
          /\ TrimTrailingSlash(b) = b
          /\ TrimLeadingSlash(p) = p

\* C11: for every base URL B and every non-absolute path P the URL is B
\* without one trailing slash, a slash, and P without one leading slash; it
\* has exactly one slash at the join point whenever B does not end with two
\* slashes and P does not begin with two
C11_OneSlashDroppedOrInserted ==
  \A c \in CallIds :
    (fetchCalls[c] # << >> /\ ~IsAbsolutePath(plan[c].path)) =>
      LET b == TrimTrailingSlash(BaseOf)
          p == TrimLeadingSlash(plan[c].path)
      IN  /\ UrlSent(c) = b \o "/" \o p \o QueryOf(c)
          /\ (TrimTrailingSlash(b) = b /\ TrimLeadingSlash(p) = p) <=>
               (~EndsWith(BaseOf, "//") /\ ~StartsWith(plan[c].path, "//"))

C11_Witness ==
  /\ fetchCalls[1] # << >>
  /\ BaseOf = "https://api.io/"
  /\ plan[1].path = "/users"
  /\ UrlSent(1) = "https://api.io/users?abc=123&def=456"

\* C12: for a path beginning with http:// or https:// the URL passed to the
\* transport is the path unchanged, followed only by the query string if
\* there is one; the base URL contributes nothing
C12_AbsolutePathBypassesBase ==
  \A c \in CallIds :
    (fetchCalls[c] # << >> /\ IsAbsolutePath(plan[c].path)) =>
      UrlSent(c) = plan[c].path \o QueryOf(c)

C12_Witness ==
  /\ fetchCalls[1] # << >>
  /\ BaseOf = "https://api.io"
  /\ plan[1].path = "http://x.io/a"
  /\ UrlSent(1) = "http://x.io/a?abc=123"

\* the URL of call c up to the query string
JoinedUrl(c) ==
  IF IsAbsolutePath(plan[c].path) THEN plan[c].path
  ELSE TrimTrailingSlash(BaseOf) \o "/" \o TrimLeadingSlash(plan[c].path)

\* C13 as stated: the query string consists of exactly the parameters whose
\* value is not absent, in the insertion order of the mapping, and "?" is
\* appended only when a parameter remains
C13_QueryInInsertionOrder ==
  \A c \in CallIds :
    fetchCalls[c] # << >> =>
      UrlSent(c) = JoinedUrl(c) \o QuerySuffix(KeptParams(c))

\* C13: the query string consists of exactly the parameters whose value is
\* not absent, in the property order of the mapping (integer-like keys first
\* in ascending order, then the other keys in insertion order), and "?" is
\* appended only when a parameter remains
C13_QueryInPropertyOrder ==
  \A c \in CallIds :
    fetchCalls[c] # << >> =>
      LET kept == KeptParams(c)
          sent == Reordered(kept, InPropertyOrder(kept))
      IN  /\ UrlSent(c) = JoinedUrl(c) \o QuerySuffix(sent)
          /\ (\A e \in {kept[i] : i \in 1..Len(kept)} : ~IsArrayIndex(e.k))
               => sent = kept
          /\ EndsWith(UrlSent(c), JoinedUrl(c)) <=> kept = << >>

C13_Witness ==
  /\ fetchCalls[1] # << >>
  /\ plan[1].options.searchParams
       = <<Param("q", Str("x")), Param("u", Undefined), Param("2", Str("y"))>>
  /\ plan[1].path = "/users"
  /\ BaseOf = "https://api.io"
  /\ UrlSent(1) = "https://api.io/users?2=y&q=x"

-----------------------------------------------------------------------------
(* The verbs                                                               *)

\* C17: for each of the five verbs the request handed to the request
\* interceptor and to the transport has the method of the verb and a URL
\* built from the verb's path argument, whatever keys named method or url
\* the options carry
C17_VerbFixesMethodAndUrl ==
  \A c \in CallIds :
    LET url == constructCompleteUrl(cfg.baseUrl, plan[c].path,
                                    plan[c].options.searchParams)
    IN  /\ reqCalls[c] # << >> =>
             /\ reqCalls[c][1].method = plan[c].verb
             /\ reqCalls[c][1].url = url
        /\ fetchCalls[c] # << >> =>
             /\ fetchCalls[c][1].method = plan[c].verb
             /\ fetchCalls[c][1].url = url

C17_Witness ==
  /\ fetchCalls[1] # << >>
  /\ plan[1].verb = "DELETE"
  /\ plan[1].options.method = Str("TRACE")
  /\ plan[1].options.url = Str("https://other.io/x")
  /\ plan[1].path = "/users"
  /\ reqCalls[1][1].method = "DELETE"
  /\ fetchCalls[1][1].method = "DELETE"
  /\ fetchCalls[1][1].url = "/users"
  /\ cfg.baseUrl = Undefined

-----------------------------------------------------------------------------
(* The response record                                                     *)

\* the body read or the JSON parse of the response of call c failed
BodyFailed(c) ==
  /\ TransportReturned(c)
  /\ \/ ~net[c].text.ok
     \/ net[c].text.v.t = "string" /\ ~JSONParse(net[c].text.v.s).ok

Warnings(c) == SelectSeq(ConsoleOf(c), LAMBDA e : e.level = "warn")

\* C14: the warnings emitted equal in number the reads of the decoded body
\* of a record whose body read or parse failed; each such read returns
\* absent and emits one warning; reads of the raw text, and reads of the
\* decoded body of a record that parsed, emit none and return the same
\* value every time
C14_OneWarningPerFailedBodyRead ==
  \A c \in CallIds :
    LET bodyReads == SelectSeq(reads[c], LAMBDA r : r.field = "body")
        rawText   == IF TransportReturned(c) /\ net[c].text.ok
                     THEN net[c].text.v ELSE Undefined
    IN  /\ Len(Warnings(c)) = IF BodyFailed(c) THEN Len(bodyReads) ELSE 0
        /\ \A i \in 1..Len(Warnings(c)) : Warnings(c)[i].args = <<BodyWarning>>
        /\ \A i \in 1..Len(reads[c]) :
             reads[c][i].v = IF reads[c][i].field = "bodyRaw" THEN rawText
                             ELSE IF BodyFailed(c) THEN Undefined
                             ELSE DecodedBodyOf(net[c])

C14_Witness ==
  /\ net[1].text = [ok |-> TRUE, v |-> Str("Tada")]
  /\ net[1].status = 200
  /\ reads[1] = << [field |-> "body", v |-> Undefined],
                   [field |-> "bodyRaw", v |-> Str("Tada")],
                   [field |-> "body", v |-> Undefined] >>
  /\ Len(Warnings(1)) = 2

-----------------------------------------------------------------------------
(* Concurrent calls                                                        *)

\* the request call c hands to its request interceptor
OwnRequest(c) ==
  ResolveRequest(RequestSummary(plan[c].verb, plan[c].path, plan[c].options), cfg)

\* what the request interceptor makes of the request of call c
OwnIntercepted(c) == RequestInterceptor(cfg.requestInterceptor, OwnRequest(c))

\* the record built from the response to call c
OwnResponse(c) ==
  IF net[c].rejects THEN SyntheticResponse ELSE BuildResponse(net[c], net[c].text)

\* how call c ends when it is the only call on the client
OwnOutcome(c) ==
  LET req  == OwnIntercepted(c).v
      resp == OwnResponse(c)
  IN  IF ~OwnIntercepted(c).ok THEN OwnIntercepted(c)
      ELSE IF net[c].rejects
           THEN ResponseErrorInterceptor(cfg.responseErrorInterceptor, c, req, resp,
                                         net[c].cause)
           ELSE IF IsSuccessStatus(resp.status)
                THEN ResponseSuccessInterceptor(cfg.responseSuccessInterceptor, req, resp)
                ELSE ResponseErrorInterceptor(cfg.responseErrorInterceptor, c, req, resp,
                                              Undefined)

\* C15: with two calls in flight on one client, in every interleaving, each
\* transport invocation carries the resolved request of its own call, each
\* interceptor receives the request and the response of its own call, and
\* each call settles with the outcome of its own response
C15_ConcurrentCallsDoNotInterfere ==
  \A c \in CallIds :
    /\ fetchCalls[c] # << >> =>
         fetchCalls[c] = <<TransportArgs(OwnIntercepted(c).v)>>
    /\ succCalls[c] # << >> =>
         succCalls[c] = <<[request |-> OwnIntercepted(c).v, response |-> OwnResponse(c)]>>
    /\ errCalls[c] # << >> =>
         /\ Len(errCalls[c]) = 1
         /\ errCalls[c][1].request = OwnIntercepted(c).v
         /\ errCalls[c][1].response = OwnResponse(c)
    /\ outcome[c] # << >> =>
         outcome[c] = <<[ok |-> OwnOutcome(c).ok, v |-> OwnOutcome(c).v]>>
    /\ pc[c] = "settled" =>
         /\ outcome[c] # << >>
         /\ ConsoleOf(c) = OwnOutcome(c).logs

\* both calls are in flight at once and end differently
C15_Witness ==
  /\ pc[1] = "settled" /\ pc[2] = "settled"
  /\ net[1].rejects /\ ~net[2].rejects /\ net[2].status = 200
  /\ plan[2].verb = "GET"
  /\ ~outcome[1][1].ok /\ outcome[2][1].ok
  /\ outcome[1][1].v.request.url = "/json"
  /\ outcome[2][1].v.status = 200
  /\ FirstIndex(2, "requestInterceptor") < FirstIndex(1, "requestInterceptor")
  /\ FirstIndex(1, "fetch") < FirstIndex(2, "fetch")
  /\ FirstIndex(2, "text") < FirstIndex(1, "errorInterceptor")
  /\ FirstIndex(1, "reject") < FirstIndex(2, "resolve")

-----------------------------------------------------------------------------
(* The order of the steps of a call                                        *)

\* C16: the error interceptor receives a response with status 0 only when
\* the transport call itself failed: never when the transport returned a
\* response, and never when the transport was not invoked
C16_StatusZeroOnlyOnTransportFailure ==
  \A c \in CallIds :
    \A i \in 1..Len(errCalls[c]) :
      errCalls[c][i].response.status = 0 => TransportFailed(c)

\* C20: on a client with a transport a call invokes the request interceptor
\* exactly once, the transport at most once and only after the request
\* interceptor resolved, and a response interceptor at most once and only
\* after the transport call settled
C20_EachStepAtMostOnceInOrder ==
  \A c \in Issued :
    cfg.fetchInstance =>
      /\ Len(reqCalls[c]) = 1
      /\ Len(fetchCalls[c]) <= 1
      /\ fetchCalls[c] # << >> =>
           /\ options[c] # << >>
           /\ FirstIndex(c, "requestInterceptor") < FirstIndex(c, "fetch")
      /\ Len(succCalls[c]) + Len(errCalls[c]) <= 1
      /\ (succCalls[c] # << >> \/ errCalls[c] # << >>) =>
           /\ fetchCalls[c] # << >>
           /\ pc[c] # "fetching"
           /\ FirstIndex(c, "fetch") < FirstIndex(c, "successInterceptor")
                                       + FirstIndex(c, "errorInterceptor")

-----------------------------------------------------------------------------
(* Jttp and Lighttp                                                        *)

\* what the construction of the client logged
ConstructionLog == ConsoleOf(NoCall)

\* C18: constructing a Jttp client never throws, and it logs the "Could not
\* find fetch function" error exactly when no fetchInstance is supplied and
\* neither window.fetch nor global.fetch exists
C18_JttpConstructionLogsMissingFetch ==
  /\ cfg.variant = "none" => ENABLED Jttp_constructor
  /\ cfg.variant = "none" => ConstructionLog = << >>
  /\ cfg.variant \in {"Jttp", "Lighttp"} =>
       ConstructionLog =
         IF ~ctor.fetchInstance /\ ~ambient.window /\ ~ambient.global
         THEN <<ErrorLog(NoCall, <<FetchNotFound>>)>>
         ELSE << >>

C18_Witness ==
  /\ cfg.variant = "Jttp"
  /\ ~ctor.fetchInstance /\ ~ambient.window /\ ~ambient.global
  /\ console = <<ErrorLog(NoCall, <<FetchNotFound>>)>>
  /\ ~cfg.fetchInstance
  /\ pc[1] = "idle"

\* C19: in every variant, when the request interceptor returns a request
\* whose structured body differs from the one the caller passed, the body
\* handed to the transport is the JSON encoding of the structured body the
\* interceptor returned
C19_TransportBodyIsInterceptorsBody ==
  \A c \in CallIds :
    (fetchCalls[c] # << >> /\ options[c][1].body # plan[c].options.body) =>
      fetchCalls[c][1].body = JSONStringify(options[c][1].body).v

-----------------------------------------------------------------------------
(* The configuration of a client                                           *)

\* the client exists
Constructed == cfg.variant # "none"

\* a step leaves the configuration of a constructed client alone, and the
\* step that constructs it stores the arguments and the ambient fetch of
\* that moment
ConfigurationFixed ==
  /\ Constructed => cfg' = cfg /\ fetchFn' = fetchFn
  /\ (~Constructed /\ cfg'.variant # "none") =>
       /\ fetchFn' = IF ambient.window THEN Fn("window", ambient.windowFn)
                     ELSE IF ambient.global THEN Fn("global", ambient.globalFn)
                     ELSE NoFn
       /\ cfg'.baseUrl = ctor.baseUrl
       /\ cfg'.credentials = ctor.credentials
       /\ cfg'.requestInterceptor = ctor.requestInterceptor
       /\ cfg'.responseErrorInterceptor = ctor.responseErrorInterceptor
       /\ cfg'.responseSuccessInterceptor = ctor.responseSuccessInterceptor

\* a client that found no fetch rejects every request with the
\* configuration error; one that found a fetch sends every request to it
AmbientFetchReadOnce ==
  \A c \in Issued :
    IF fetchFn = NoFn
    THEN /\ outcome[c] = <<[ok |-> FALSE, v |-> ConfigError]>>
         /\ reqCalls[c] = << >> /\ fetchCalls[c] = << >>
         /\ invoked[c] = NoFn
    ELSE /\ outcome[c] # <<[ok |-> FALSE, v |-> ConfigError]>>
         /\ reqCalls[c] # << >>
         /\ fetchCalls[c] # << >> <=> invoked[c] # NoFn
         /\ invoked[c] \in {NoFn, fetchFn}

\* C21: the configuration of a client is fixed at construction and no
\* request changes it; the ambient fetch is looked up once, at construction:
\* a client built without one rejects every request with the configuration
\* error even when a fetch appears later, and a client built with one keeps
\* using it when the ambient fetch is later removed or replaced
C21_ConfigurationFixedAtConstruction ==
  [](Constructed => AmbientFetchReadOnce) /\ [][ConfigurationFixed]_vars

\* the client captured the first window.fetch; window.fetch was replaced
\* before the call was made, and the call went to the captured function
C21_Witness ==
  /\ Constructed
  /\ fetchFn = Fn("window", 0)
  /\ ambient.window /\ ambient.windowFn = 1
  /\ pc[1] = "settled" /\ outcome[1][1].ok
  /\ invoked[1] = Fn("window", 0)
  /\ FirstIndex(NoCall, "constructor") < FirstIndex(NoCall, "window.fetch = f")
  /\ FirstIndex(NoCall, "window.fetch = f") < FirstIndex(1, "requestInterceptor")

-----------------------------------------------------------------------------
(* Failures of the interceptors                                            *)

\* C22: when the request interceptor rejects or throws, the call rejects
\* with that same reason, the transport is never invoked and neither the
\* success nor the error interceptor is invoked
C22_RequestInterceptorRejectionPropagates ==
  \A c \in CallIds :
    reqCalls[c] # << >> =>
      LET r == RequestInterceptor(cfg.requestInterceptor, reqCalls[c][1])
      IN  ~r.ok =>
            /\ fetchCalls[c] = << >> /\ textReads[c] = 0
            /\ succCalls[c] = << >> /\ errCalls[c] = << >>
            /\ ConsoleOf(c) = << >>
            /\ pc[c] \in {"intercepting", "settled"}
            /\ IF pc[c] = "settled"
               THEN outcome[c] = <<[ok |-> FALSE, v |-> r.v]>>
               ELSE outcome[c] = << >>

C22_Witness ==
  /\ cfg.requestInterceptor = "rejects"
  /\ plan[1].verb = "PUT"
  /\ Len(reqCalls[1]) = 1
  /\ pc[1] = "settled"
  /\ outcome[1] = <<[ok |-> FALSE, v |-> Err("request interceptor failed")]>>
  /\ trace = <<Event(1, "requestInterceptor"), Event(1, "reject")>>

\* a success interceptor that fails makes the call reject with its reason,
\* and the error interceptor is not invoked for the call
SuccessInterceptorFailurePropagates ==
  \A c \in CallIds :
    succCalls[c] # << >> =>
      LET r == ResponseSuccessInterceptor(cfg.responseSuccessInterceptor,
                                          succCalls[c][1].request,
                                          succCalls[c][1].response)
      IN  ~r.ok =>
            /\ errCalls[c] = << >>
            /\ ConsoleOf(c) = << >>
            /\ IF pc[c] = "settled"
               THEN outcome[c] = <<[ok |-> FALSE, v |-> r.v]>>
               ELSE outcome[c] = << >>

\* the error interceptor is reached only by a failure of the transport call
\* or by a response with an error status
ErrorInterceptorOnlyOnFailureOrStatus ==
  \A c \in CallIds :
    errCalls[c] # << >> =>
      \/ TransportFailed(c)
      \/ TransportReturned(c) /\ (net[c].status < 200 \/ net[c].status >= 400)

\* C23: when the success interceptor throws or rejects, the call rejects
\* with that reason and the error interceptor is not invoked for the call;
\* only a failure of the transport call itself, or an error status, ever
\* reaches the error interceptor
C23_OnlyTransportOrStatusReachErrorInterceptor ==
  SuccessInterceptorFailurePropagates /\ ErrorInterceptorOnlyOnFailureOrStatus

-----------------------------------------------------------------------------
(* Termination                                                             *)

\* how often the promise of call c settled
Settlements(c) ==
  Len(SelectSeq(trace, LAMBDA e : e.call = c /\ e.ev \in {"resolve", "reject"}))

\* a call settles at most once, and what it settled with stays
SettlesAtMostOnce ==
  \A c \in CallIds :
    /\ Settlements(c) <= 1
    /\ Len(outcome[c]) = Settlements(c)
    /\ pc[c] = "settled" <=> Settlements(c) = 1

OutcomeIsFinal ==
  \A c \in CallIds : outcome[c] # << >> => outcome'[c] = outcome[c] /\ pc'[c] = pc[c]

\* C24: every verb call eventually settles, provided the request
\* interceptor, the transport call, the body read and the invoked response
\* interceptor each eventually settle; and it settles exactly once
C24_EveryCallSettlesExactlyOnce ==
  /\ \A c \in CallIds : (c \in Issued) ~> (pc[c] = "settled")
  /\ []SettlesAtMostOnce
  /\ [][OutcomeIsFinal]_vars

\* a call that went through every await of the pipeline and settled
C24_Witness ==
  /\ pc[1] = "settled"
  /\ Settlements(1) = 1
  /\ Len(reqCalls[1]) = 1 /\ Len(fetchCalls[1]) = 1 /\ textReads[1] = 1
  /\ Len(succCalls[1]) = 1
  /\ cfg.requestInterceptor = "replaceBody"
  /\ cfg.responseSuccessInterceptor = "rawBody"
  /\ outcome[1][1].ok

====
